---- MODULE Spec2Model ----
(***************************************************************************)
(* Model of supply_chain_score.model: Repo.__init__ (repo.py) and the      *)
(* GithubRepo methods (githubrepo.py).                                     *)
(*                                                                         *)
(* One GithubRepo instance is modelled.  The program is sequential; the    *)
(* only nondeterminism is the constructor's url argument, the method the   *)
(* caller invokes next, and what the HTTP server answers to each GET.  An  *)
(* action is the code that runs from one blocking point (the caller's      *)
(* call, or a http.request) up to the next one.                            *)
(*                                                                         *)
(* Strings are sequences of tokens; "/" is a token of its own, so that     *)
(* str.split('/') is computed and not assumed.  Python values stored in    *)
(* attributes or returned are tagged records [tag, val].                   *)
(***************************************************************************)
EXTENDS Integers, Sequences, FiniteSets, TLC

VARIABLES
    self,         \* the instance's attributes (url, owner, name, ...)
    max_pages,    \* class attribute GithubRepo.max_pages
    pc,           \* "init" | "ctor" | "done" | "method" | "raised"
    op,           \* the top-level operation running or last run
    cur,          \* the fetch method whose _paginated_api_call is running
    api_url,      \* local `url` of _paginated_api_call
    data,         \* local `data` of _paginated_api_call, a tagged value
    page_number,  \* local `page_number`: 0 while the first request is
                  \* pending, k while the request for page k is pending
    ret,          \* value returned by the last completed method call
    err,          \* exception that left the last top-level operation
    trace         \* ctx.logger.info calls and http.request calls of the
                  \* current top-level operation, in program order

vars == <<self, max_pages, pc, op, cur, api_url, data, page_number, ret, err, trace>>

----------------------------------------------------------------------------
(* Bounds of the model *)

\* length of a page that is not full
ShortLen == 40
\* number of full pages a collection has on the server of Spec
MaxFull == 1
\* largest value of max_pages tried by SpecCap
MaxCap == 3
\* number of keys of an error payload, number of characters of a short string
ErrKeys == 2

----------------------------------------------------------------------------
(* Program constants *)

max_elements_per_page == 100
max_pages_default == 10

----------------------------------------------------------------------------
(* Python values *)

Unset == [tag |-> "unset", val |-> <<>>]
NoneVal == [tag |-> "None", val |-> <<>>]
ListVal(s) == [tag |-> "list", val |-> s]
StrVal(s) == [tag |-> "str", val |-> s]
IntVal(n) == [tag |-> "int", val |-> <<n>>]
BoolVal(b) == [tag |-> "bool", val |-> <<b>>]

Fetches == <<"contributors", "forks", "releases", "issues", "commits">>
FetchNames == {Fetches[i] : i \in DOMAIN Fetches}
FetchIdx(f) == CHOOSE i \in DOMAIN Fetches : Fetches[i] = f

\* events of the trace
LogEv(by, msg, arg) == [kind |-> "log", by |-> by, msg |-> msg, arg |-> arg]
GetEv(by, url, resp, ty, n) ==
    [kind |-> "GET", by |-> by, url |-> url, resp |-> resp, type |-> ty, len |-> n]

----------------------------------------------------------------------------
(* URL resolution: get_owner, get_name, _parse_github_url *)

RECURSIVE SplitFrom(_, _, _, _)
SplitFrom(s, i, seg, acc) ==
    IF i > Len(s) THEN Append(acc, seg)
    ELSE IF s[i] = "/" THEN SplitFrom(s, i + 1, <<>>, Append(acc, seg))
    ELSE SplitFrom(s, i + 1, Append(seg, s[i]), acc)

\* str.split('/')
Split(s) == SplitFrom(s, 1, <<>>, <<>>)

\* faulty variant: the index is taken one element too early
IndexFromEndOffByOne(parts, position) ==
    LET i == Len(parts) + position
    IN  IF i < 1 \/ i > Len(parts)
        THEN [raised |-> TRUE, val |-> <<>>]
        ELSE [raised |-> FALSE, val |-> parts[i]]

\* list[position] for a negative position: IndexError when out of range
IndexFromEnd(parts, position) ==
    LET i == Len(parts) + position + 1
    IN  IF i < 1 \/ i > Len(parts)
        THEN [raised |-> TRUE, val |-> <<>>]
        ELSE [raised |-> FALSE, val |-> parts[i]]

\* element_parsed = self.url.split('/')[position]
ParseGithubUrl(u, position) == IndexFromEnd(Split(u), position)

OwnerPosition == -2
NamePosition == -1

OwnerLog == "Getting owner of repo: {}"
NameLog == "Getting name of repo: {}"

----------------------------------------------------------------------------
(* get_api_url and the endpoints *)

ExtraParams(f) == IF f = "issues" THEN <<"state=all">> ELSE <<>>

Endpoint(f, owner, name) ==
    <<"https://api.github.com/repos/">> \o owner \o <<"/">> \o name \o <<"/", f>>

GetApiUrl(api_endpoint, extra_params) ==
    api_endpoint \o <<"?">>
    \o (IF extra_params # <<>> THEN extra_params \o <<"&">> ELSE <<>>)
    \o <<"per_page=", ToString(max_elements_per_page)>>

PageUrl(url, n) == url \o <<"&page=", ToString(n)>>

FirstCallLog == "Making first API call to {}"
PageCallLog == "Making paginated API call to {}"
CountLog == "Number of elements retrived: {}"
FetchLog == "Getting {} for repo: {}"

----------------------------------------------------------------------------
(* Repo.__init__: the order in which the attributes are populated *)

\* faulty variant: stars populated after issues
CtorOrderStarsLast ==
    <<"contributors", "forks", "releases", "issues", "stars", "commits">>

\* repo.py lines 16-21
CtorOrder ==
    <<"contributors", "forks", "releases", "stars", "issues", "commits">>

CtorIdx(f) == CHOOSE i \in DOMAIN CtorOrder : CtorOrder[i] = f

\* Repo.get_stars, Repo.get_score: the body is `pass`
BaseNoOp == NoneVal

\* the state left when no paginated call is running
Idle(s, tr, p, r, e) ==
    [self |-> s, pc |-> p, cur |-> "none", api_url |-> <<>>, data |-> Unset,
     page_number |-> 0, ret |-> r, err |-> e, trace |-> tr]

\* get_<f>() up to the first http.request of _paginated_api_call
StartFetch(s, f, tr, p) ==
    LET url == GetApiUrl(Endpoint(f, s.owner.val, s.name.val), ExtraParams(f))
    IN  [self |-> s, pc |-> p, cur |-> f, api_url |-> url, data |-> Unset,
         page_number |-> 0, ret |-> Unset, err |-> "none",
         trace |-> tr \o <<LogEv(f, FetchLog, <<f>> \o s.name.val),
                           LogEv(f, FirstCallLog, url)>>]

\* __init__ from its i-th population step on, up to the next http.request
RECURSIVE RunCtor(_, _, _)
RunCtor(i, s, tr) ==
    IF i > Len(CtorOrder) THEN Idle(s, tr, "done", Unset, "none")
    ELSE IF CtorOrder[i] \in FetchNames THEN StartFetch(s, CtorOrder[i], tr, "ctor")
    ELSE RunCtor(i + 1, [s EXCEPT ![CtorOrder[i]] = BaseNoOp], tr)

\* faulty variant: every call of get_<f>() refreshes the attribute
StoreResultAlways(s, f, v, inCtor) == [s EXCEPT ![f] = v]

\* `self.<f> = self.get_<f>()` happens in __init__ only; a later call of
\* get_<f>() returns the value to its caller
StoreResult(s, f, v, inCtor) == IF inCtor THEN [s EXCEPT ![f] = v] ELSE s

\* _paginated_api_call returns v: back in the caller of get_<cur>()
Returned(v, tr) ==
    LET s == StoreResult(self, cur, v, pc = "ctor")
    IN  IF pc = "ctor" THEN RunCtor(CtorIdx(cur) + 1, s, tr)
        ELSE Idle(s, tr, "done", v, "none")

\* an exception leaves _paginated_api_call, get_<cur>() and, in the
\* constructor, __init__: nothing catches it
Raised(e, tr) ==
    Idle(self, tr, IF pc = "ctor" THEN "raised" ELSE "done", Unset, e)

Apply(st) ==
    /\ self' = st.self
    /\ pc' = st.pc
    /\ cur' = st.cur
    /\ api_url' = st.api_url
    /\ data' = st.data
    /\ page_number' = st.page_number
    /\ ret' = st.ret
    /\ err' = st.err
    /\ trace' = st.trace

----------------------------------------------------------------------------
(* The server *)

\* What a GET can bring back:
\*   "MaxRetryError"  http.request raises: no response
\*   "badutf8"        a body that response.data.decode('utf-8') rejects
\*   "badjson"        a body that is not JSON: json.loads raises JSONDecodeError
\*   "bigint"         JSON holding an integer literal longer than the
\*                    interpreter's integer-digit limit: json.loads raises
\*                    ValueError
\*   "deep"           JSON nested deeper than the interpreter's recursion
\*                    limit: json.loads raises RecursionError
\*   "scalar"         a JSON null, number or boolean: a value without len()
\*   "ok"             a JSON array ("list"), object ("dict") or string ("str")
\*                    of n items: a value with len() that can be iterated

\* the bodies json.loads rejects
RejectedBodies == {"badjson", "bigint", "deep"}

\* the exception json.loads leaves _paginated_api_call with on such a body;
\* lines 55 and 69 catch nothing
LoadsError(b) ==
    CASE b = "badjson" -> "JSONDecodeError"
      [] b = "bigint" -> "ValueError"
      [] b = "deep" -> "RecursionError"

\* the Python types json.loads gives that have a length
SizedTypes == {"list", "dict", "str"}

\* the items of the body of n items the server answers for page p of fetch
\* f: the records of an array, the keys of an object, the characters of a
\* string
PageBody(f, p, ty, n) ==
    [i \in 1..n |-> (IF ty = "list" THEN 1 ELSE -1)
                    * (FetchIdx(f) * 100000 + p * 1000 + i)]

\* json.loads(response.data.decode('utf-8')) on such a body
Loads(f, p, ty, n) == [tag |-> ty, val |-> PageBody(f, p, ty, n)]

\* array lengths tried: empty, short, one less than full, full, oversized
PageLens == {0, ShortLen, max_elements_per_page - 1, max_elements_per_page,
             max_elements_per_page + 1}

\* object and string lengths tried: an error payload, and as long as a full page
OtherLens == {ErrKeys, max_elements_per_page}

\* the answers "ok" of the server of SpecFetch and SpecCap to the request
\* for page p: an array of any of the lengths, an object or a string that
\* is short or, on the first two pages, as long as a full page
AnyBodies(p) ==
    LET lens == IF p <= 2 THEN OtherLens ELSE {ErrKeys}
    IN  {<<"list", n>> : n \in PageLens} \cup {<<"dict", n>> : n \in lens}
        \cup {<<"str", n>> : n \in lens}

\* the answers "ok" of the server of Spec: every collection has MaxFull full
\* pages and then a short one; the first request may bring an error payload
RepoBodies(p) ==
    (IF p <= MaxFull THEN {<<"list", max_elements_per_page>>}
     ELSE {<<"list", ShortLen>>})
    \cup (IF p = 1 THEN {<<"dict", ErrKeys>>} ELSE {})

----------------------------------------------------------------------------
(* _paginated_api_call *)

\* line 59: paginate = len(data) == self.max_elements_per_page
PaginateFirst(n) == n = max_elements_per_page

\* faulty variant: the cap is tested with <=
PaginateNextInclusive(n, pn, mp) == n = max_elements_per_page /\ pn <= mp

\* line 70: paginate = len(new_data) == self.max_elements_per_page
\*                     and page_number < self.max_pages
PaginateNext(n, pn, mp) == n = max_elements_per_page /\ pn < mp

\* faulty variant: an empty list instead of None
FirstFailureResultEmpty == ListVal(<<>>)

\* lines 52-53: except MaxRetryError: return None
FirstFailureResult == NoneVal

\* faulty variant: the accumulated pages are dropped
PageFailureResultNone(d) == NoneVal

\* lines 67-68: except MaxRetryError: return data
PageFailureResult(d) == d

\* faulty variant: the count is not logged
CompletionLogNone(by, d) == <<>>

\* line 72: logger.info("Number of elements retrived: {}".format(len(data)))
CompletionLog(by, d) == <<LogEv(by, CountLog, Len(d.val))>>

\* lines 67-68 return before line 72: no log on this path
PageFailureLog(by, d) == <<>>

\* faulty variant: MaxRetryError is not caught
FirstFailureRaises(tr) == Raised("MaxRetryError", tr)

\* lines 48-53
OnFirstFailure(tr) == Returned(FirstFailureResult, tr)

\* lines 61-63, the head of the loop body up to the http.request of line 64:
\* page_number += 1 and the log of the call, then the code waits
NextPage(d, pn, tr) ==
    /\ data' = d
    /\ page_number' = pn + 1
    /\ trace' = Append(tr, LogEv(cur, PageCallLog, PageUrl(api_url, pn + 1)))
    /\ UNCHANGED <<self, pc, cur, api_url, ret, err>>

\* the code waits in the http.request of lines 49-51
AwaitingFirst == pc \in {"ctor", "method"} /\ cur \in FetchNames /\ page_number = 0

\* the code waits in the http.request of lines 64-66, for page page_number
AwaitingPage == pc \in {"ctor", "method"} /\ cur \in FetchNames /\ page_number >= 2

\* lines 49-53: the first GET raises MaxRetryError
FirstRequestFails ==
    /\ AwaitingFirst
    /\ Apply(OnFirstFailure(
           Append(trace, GetEv(cur, api_url, "MaxRetryError", "none", 0))))
    /\ UNCHANGED <<max_pages, op>>

\* line 55: response.data.decode('utf-8') raises
FirstRequestBadUtf8 ==
    /\ AwaitingFirst
    /\ Apply(Raised("UnicodeDecodeError",
                    Append(trace, GetEv(cur, api_url, "badutf8", "none", 0))))
    /\ UNCHANGED <<max_pages, op>>

\* line 55: json.loads raises on the body b
FirstRequestBadJson(b) ==
    /\ AwaitingFirst
    /\ Apply(Raised(LoadsError(b),
                    Append(trace, GetEv(cur, api_url, b, "none", 0))))
    /\ UNCHANGED <<max_pages, op>>

\* lines 55-59: len(data) raises TypeError on null, a number, a boolean
FirstRequestScalar ==
    /\ AwaitingFirst
    /\ Apply(Raised("TypeError",
                    Append(trace, GetEv(cur, api_url, "scalar", "none", 0))))
    /\ UNCHANGED <<max_pages, op>>

\* lines 49-59, then 61-63 when the page is full and 72-73 when it is not
FirstRequestOk(ty, n) ==
    /\ AwaitingFirst
    /\ LET d == Loads(cur, 1, ty, n)
           tr == Append(trace, GetEv(cur, api_url, "ok", ty, n))
       IN  IF PaginateFirst(Len(d.val))
           THEN NextPage(d, 1, tr)
           ELSE Apply(Returned(d, tr \o CompletionLog(cur, d)))
    /\ UNCHANGED <<max_pages, op>>

\* lines 64-68: the GET of the page raises MaxRetryError
PageRequestFails ==
    /\ AwaitingPage
    /\ LET u == PageUrl(api_url, page_number)
           tr == Append(trace, GetEv(cur, u, "MaxRetryError", "none", 0))
       IN  Apply(Returned(PageFailureResult(data), tr \o PageFailureLog(cur, data)))
    /\ UNCHANGED <<max_pages, op>>

\* line 69: response.data.decode('utf-8') raises
PageRequestBadUtf8 ==
    /\ AwaitingPage
    /\ LET u == PageUrl(api_url, page_number)
       IN  Apply(Raised("UnicodeDecodeError",
                        Append(trace, GetEv(cur, u, "badutf8", "none", 0))))
    /\ UNCHANGED <<max_pages, op>>

\* line 69: json.loads raises on the body b
PageRequestBadJson(b) ==
    /\ AwaitingPage
    /\ LET u == PageUrl(api_url, page_number)
       IN  Apply(Raised(LoadsError(b),
                        Append(trace, GetEv(cur, u, b, "none", 0))))
    /\ UNCHANGED <<max_pages, op>>

\* lines 69-70: len(new_data) raises TypeError on null, a number, a boolean
PageRequestScalar ==
    /\ AwaitingPage
    /\ LET u == PageUrl(api_url, page_number)
       IN  Apply(Raised("TypeError",
                        Append(trace, GetEv(cur, u, "scalar", "none", 0))))
    /\ UNCHANGED <<max_pages, op>>

\* lines 64-71, then 61-63 when the loop goes on and 72-73 when it ends.
\* data.extend (line 71) raises AttributeError when the first body was not
\* an array; on a list it appends the items new_data iterates over
PageRequestOk(ty, n) ==
    /\ AwaitingPage
    /\ LET pn == page_number
           u == PageUrl(api_url, pn)
           new_data == Loads(cur, pn, ty, n)
           paginate == PaginateNext(Len(new_data.val), pn, max_pages)
           d == ListVal(data.val \o new_data.val)
           tr == Append(trace, GetEv(cur, u, "ok", ty, n))
       IN  IF data.tag # "list" THEN Apply(Raised("AttributeError", tr))
           ELSE IF paginate THEN NextPage(d, pn, tr)
           ELSE Apply(Returned(d, tr \o CompletionLog(cur, d)))
    /\ UNCHANGED <<max_pages, op>>

----------------------------------------------------------------------------
(* Construction *)

\* urls handed to the constructor: well formed, with a trailing slash, a
\* single segment, the empty string
Urls == {
    <<"https:", "/", "/", "github.com", "/", "foo", "/", "bar">>,
    <<"foo", "/", "bar", "/">>,
    <<"bar">>,
    <<>> }

NoAttrs ==
    [url |-> Unset, owner |-> Unset, name |-> Unset, contributors |-> Unset,
     forks |-> Unset, releases |-> Unset, stars |-> Unset, issues |-> Unset,
     commits |-> Unset]

\* GithubRepo(ctx, url): repo.py lines 12-16, up to the first http.request
Construct(u) ==
    /\ pc = "init"
    /\ op' = "__init__"
    /\ LET s0 == [self EXCEPT !.url = StrVal(u)]
           o == ParseGithubUrl(u, OwnerPosition)
           n == ParseGithubUrl(u, NamePosition)
           s1 == [s0 EXCEPT !.owner = StrVal(o.val)]
           s2 == [s1 EXCEPT !.name = StrVal(n.val)]
           t1 == <<LogEv("get_owner", OwnerLog, o.val)>>
           t2 == Append(t1, LogEv("get_name", NameLog, n.val))
       IN  IF o.raised THEN Apply(Idle(s0, <<>>, "raised", Unset, "IndexError"))
           ELSE IF n.raised THEN Apply(Idle(s1, t1, "raised", Unset, "IndexError"))
           ELSE Apply(RunCtor(1, s2, t2))
    /\ UNCHANGED max_pages

----------------------------------------------------------------------------
(* Method calls on the constructed instance *)

\* get_contributors(), get_forks(), get_releases(), get_issues(), get_commits()
CallFetch(f) ==
    /\ pc = "done"
    /\ op' = f
    /\ Apply(StartFetch(self, f, <<>>, "method"))
    /\ UNCHANGED max_pages

\* get_owner() / get_name()
CallParse(name, position, log_text) ==
    /\ pc = "done"
    /\ op' = name
    /\ LET r == ParseGithubUrl(self.url.val, position)
       IN  IF r.raised THEN Apply(Idle(self, <<>>, "done", Unset, "IndexError"))
           ELSE Apply(Idle(self, <<LogEv(name, log_text, r.val)>>, "done",
                           StrVal(r.val), "none"))
    /\ UNCHANGED max_pages

CallGetOwner == CallParse("get_owner", OwnerPosition, OwnerLog)
CallGetName == CallParse("get_name", NamePosition, NameLog)

\* get_stars() and get_score() are not overridden: Repo's `pass`
CallBase(name) ==
    /\ pc = "done"
    /\ op' = name
    /\ Apply(Idle(self, <<>>, "done", BaseNoOp, "none"))
    /\ UNCHANGED max_pages

\* faulty variant: None counts as empty
TotalOrZero(v) ==
    IF v.tag \in SizedTypes THEN [raised |-> FALSE, val |-> Len(v.val)]
    ELSE [raised |-> FALSE, val |-> 0]

\* len(self.<f>): TypeError when the attribute is None
Total(v) ==
    IF v.tag \in SizedTypes THEN [raised |-> FALSE, val |-> Len(v.val)]
    ELSE [raised |-> TRUE, val |-> 0]

TotalName(f) ==
    CASE f = "contributors" -> "get_total_contributors"
      [] f = "forks" -> "get_total_forks"
      [] f = "releases" -> "get_total_releases"
      [] f = "issues" -> "get_total_issues"
      [] f = "commits" -> "get_total_commits"

\* get_total_<f>()
CallGetTotal(f) ==
    /\ pc = "done"
    /\ op' = TotalName(f)
    /\ LET r == Total(self[f])
       IN  IF r.raised THEN Apply(Idle(self, <<>>, "done", Unset, "TypeError"))
           ELSE Apply(Idle(self, <<>>, "done", IntVal(r.val), "none"))
    /\ UNCHANGED max_pages

\* commit['commit']['author']['date'] strings and reference dates tried.
\* A date string is its fields in the order of '%Y-%m-%dT%H:%M:%SZ', or a
\* string of another format
DateStrings == {
    [fmt |-> "%Y-%m-%dT%H:%M:%SZ", fields |-> <<2020, 1, 1, 0, 0, 0>>],
    [fmt |-> "%Y-%m-%dT%H:%M:%SZ", fields |-> <<2021, 1, 1, 0, 0, 0>>],
    [fmt |-> "%Y-%m-%dT%H:%M:%SZ", fields |-> <<2021, 13, 1, 0, 0, 0>>],
    [fmt |-> "%Y-%m-%d", fields |-> <<2020, 1, 1>>] }

RefDates == {<<2020, 1, 1, 0, 0, 0>>, <<2021, 1, 1, 0, 0, 0>>}

DaysIn(y, m) ==
    IF m \in {4, 6, 9, 11} THEN 30
    ELSE IF m = 2
         THEN (IF (y % 4 = 0 /\ y % 100 # 0) \/ y % 400 = 0 THEN 29 ELSE 28)
    ELSE 31

\* datetime.datetime.strptime(s, '%Y-%m-%dT%H:%M:%SZ'): ValueError when the
\* string has another format or a field is out of range
Strptime(s) ==
    IF s.fmt # "%Y-%m-%dT%H:%M:%SZ" THEN [raised |-> TRUE, val |-> <<>>]
    ELSE LET f == s.fields
         IN  IF /\ f[1] \in 1..9999 /\ f[2] \in 1..12
                /\ f[3] \in 1..DaysIn(f[1], IF f[2] \in 1..12 THEN f[2] ELSE 1)
                /\ f[4] \in 0..23 /\ f[5] \in 0..59 /\ f[6] \in 0..59
             THEN [raised |-> FALSE, val |-> f]
             ELSE [raised |-> TRUE, val |-> <<>>]

\* datetime.__lt__ on naive datetimes: lexicographic on the fields
RECURSIVE DateLess(_, _, _)
DateLess(a, b, i) ==
    IF i > Len(a) THEN FALSE
    ELSE IF a[i] # b[i] THEN a[i] < b[i]
    ELSE DateLess(a, b, i + 1)

\* is_commit_before_date(commit, date)
CallIsCommitBeforeDate(c, d) ==
    /\ pc = "done"
    /\ op' = "is_commit_before_date"
    /\ LET commit_date == Strptime(c)
       IN  IF commit_date.raised
           THEN Apply(Idle(self, <<>>, "done", Unset, "ValueError"))
           ELSE Apply(Idle(self, <<>>, "done",
                           BoolVal(DateLess(commit_date.val, d, 1)), "none"))
    /\ UNCHANGED max_pages

----------------------------------------------------------------------------
(* Specifications *)

InitWith(mp) ==
    /\ self = NoAttrs
    /\ max_pages = mp
    /\ pc = "init"
    /\ op = "none"
    /\ cur = "none"
    /\ api_url = <<>>
    /\ data = Unset
    /\ page_number = 0
    /\ ret = Unset
    /\ err = "none"
    /\ trace = <<>>

Init == InitWith(max_pages_default)

\* Spec: construction, then the methods that issue no request, against a
\* server whose collections have MaxFull full pages and a short one, whose
\* first answer may be an error payload, and whose requests may fail
Next ==
    \/ \E u \in Urls : Construct(u)
    \/ FirstRequestFails
    \/ FirstRequestBadUtf8
    \/ \E b \in RejectedBodies : FirstRequestBadJson(b)
    \/ FirstRequestScalar
    \/ \E b \in RepoBodies(1) : FirstRequestOk(b[1], b[2])
    \/ PageRequestFails
    \/ PageRequestBadUtf8
    \/ \E b \in RejectedBodies : PageRequestBadJson(b)
    \/ PageRequestScalar
    \/ \E b \in RepoBodies(page_number) : PageRequestOk(b[1], b[2])
    \/ \E f \in FetchNames : CallGetTotal(f)
    \/ CallGetOwner
    \/ CallGetName
    \/ CallBase("get_stars")
    \/ CallBase("get_score")
    \/ \E c \in DateStrings, d \in RefDates : CallIsCommitBeforeDate(c, d)

Spec == Init /\ [][Next]_vars

\* SpecFetch: the instance is constructed while the network is down, then
\* every method is called, against a server that answers anything
NextFetch ==
    \/ \E u \in Urls : Construct(u)
    \/ pc = "ctor" /\ FirstRequestFails
    \/ \E f \in FetchNames : CallFetch(f)
    \/ pc = "method" /\ FirstRequestFails
    \/ pc = "method" /\ FirstRequestBadUtf8
    \/ \E b \in RejectedBodies : pc = "method" /\ FirstRequestBadJson(b)
    \/ pc = "method" /\ FirstRequestScalar
    \/ \E b \in AnyBodies(1) : pc = "method" /\ FirstRequestOk(b[1], b[2])
    \/ pc = "method" /\ PageRequestFails
    \/ pc = "method" /\ PageRequestBadUtf8
    \/ \E b \in RejectedBodies : pc = "method" /\ PageRequestBadJson(b)
    \/ pc = "method" /\ PageRequestScalar
    \/ \E b \in AnyBodies(page_number) : pc = "method" /\ PageRequestOk(b[1], b[2])
    \/ \E f \in FetchNames : CallGetTotal(f)
    \/ CallGetOwner
    \/ CallGetName
    \/ CallBase("get_stars")
    \/ CallBase("get_score")
    \/ \E c \in DateStrings, d \in RefDates : CallIsCommitBeforeDate(c, d)

SpecFetch == Init /\ [][NextFetch]_vars

\* SpecCap: SpecFetch with the class attribute max_pages set to 1..MaxCap
InitCap == \E mp \in 1..MaxCap : InitWith(mp)

SpecCap == InitCap /\ [][NextFetch]_vars

----------------------------------------------------------------------------
(* Observations on the trace *)

\* the http.request calls made by get_<f>() in the current top-level operation
GetsBy(f) ==
    LET Test(e) == e.kind = "GET" /\ e.by = f
    IN  SelectSeq(trace, Test)

\* the count lines logged by get_<f>()
CountLogsBy(f) ==
    LET Test(e) == e.kind = "log" /\ e.by = f /\ e.msg = CountLog
    IN  SelectSeq(trace, Test)

AllOk(g) == \A k \in DOMAIN g : g[k].resp = "ok"

\* the request is the one for page k: the first carries no page parameter,
\* the k-th ends in &page=k
IsPageRequest(e, k) ==
    LET n == Len(e.url)
    IN  IF k = 1 THEN \A i \in 1..n : e.url[i] # "&page="
        ELSE /\ n >= 2
             /\ e.url[n - 1] = "&page="
             /\ e.url[n] = ToString(k)
             /\ \A i \in 1..(n - 2) : e.url[i] # "&page="

\* the items of the bodies the server answered to requests 1..k of g,
\* concatenated
RECURSIVE ConcatPages(_, _, _)
ConcatPages(f, g, k) ==
    IF k = 0 THEN <<>>
    ELSE ConcatPages(f, g, k - 1) \o PageBody(f, k, g[k].type, g[k].len)

\* the value is one json.loads gave or the code built from such values
Sized(v) == v.tag \in SizedTypes

\* a call of get_<op>() on the constructed instance has completed
FetchDone == pc = "done" /\ op \in FetchNames

----------------------------------------------------------------------------
(* Claims on _paginated_api_call, checked under SpecFetch / SpecCap *)

\* C1: when no request of a completed call failed, the call issued the
\* requests for pages 1..n in that order, each once, where n is the first
\* page whose length is not exactly 100 (or 10 when pages 1..10 are full),
\* and returned exactly the concatenation of pages 1..n in page order.
C1_PagesInOrder ==
    LET g == GetsBy(op)
        n == Len(g)
    IN  (FetchDone /\ err = "none" /\ AllOk(g)) =>
            /\ n >= 1 /\ n <= 10
            /\ \A k \in 1..n : IsPageRequest(g[k], k)
            /\ \A k \in 1..(n - 1) : g[k].len = 100
            /\ g[n].len # 100 \/ n = 10
            /\ ret.tag = g[1].type
            /\ g[1].type = "list" \/ n = 1
            /\ ret.val = ConcatPages(op, g, n)
            /\ (g[1].len < 100 =>
                    n = 1 /\ ret.val = PageBody(op, 1, g[1].type, g[1].len))

\* three full pages then a 40-record page: 4 requests, 340 records
C1_Witness ==
    LET g == GetsBy(op)
    IN  /\ FetchDone /\ err = "none" /\ AllOk(g)
        /\ Len(g) = 4
        /\ \A k \in 1..4 : g[k].type = "list"
        /\ g[3].len = 100 /\ g[4].len = ShortLen
        /\ ret.tag = "list"
        /\ Len(ret.val) = 300 + ShortLen

\* C2: one call issues at most max_pages GET requests and, the server
\* keeping its pages within per_page records, returns at most
\* max_pages * max_elements_per_page records, whatever value >= 1 max_pages
\* has.
C2_AtMostMaxPages ==
    \A f \in FetchNames :
        LET g == GetsBy(f)
        IN  /\ Len(g) <= max_pages
            /\ (/\ FetchDone /\ op = f /\ Sized(ret)
                /\ \A k \in DOMAIN g : g[k].len <= max_elements_per_page)
                   => Len(ret.val) <= max_pages * max_elements_per_page

\* C3: if the first request of a call raises MaxRetryError, the call
\* returns None and issues no further request.
C3_FirstFailureGivesNone ==
    LET g == GetsBy(op)
    IN  (FetchDone /\ Len(g) >= 1 /\ g[1].resp = "MaxRetryError") =>
            /\ ret.tag = "None"
            /\ err = "none"
            /\ Len(g) = 1

C3_Witness ==
    /\ FetchDone
    /\ Len(GetsBy(op)) = 1
    /\ GetsBy(op)[1].resp = "MaxRetryError"
    /\ ret.tag = "None"

\* C4: if the request for page k (2 <= k <= 10) raises MaxRetryError after
\* pages 1..k-1 were fetched, the call returns exactly the concatenation of
\* pages 1..k-1, page k was requested once, and no later page is requested.
C4_LaterFailureGivesPartial ==
    LET g == GetsBy(op)
    IN  \A k \in 2..Len(g) :
            g[k].resp = "MaxRetryError" =>
                /\ k <= 10
                /\ Len(g) = k
                /\ \A j \in 1..k : IsPageRequest(g[j], j)
                /\ \A j \in 1..(k - 1) : g[j].resp = "ok"
                /\ FetchDone
                /\ err = "none"
                /\ ret.tag = g[1].type
                /\ ret.val = ConcatPages(op, g, k - 1)

\* page 3 fails after two full pages: pages 1-2, 200 records
C4_Witness ==
    LET g == GetsBy(op)
    IN  /\ FetchDone
        /\ Len(g) = 3
        /\ g[3].resp = "MaxRetryError"
        /\ g[1].type = "list" /\ g[2].type = "list"
        /\ ret.tag = "list"
        /\ Len(ret.val) = 200

\* the last event of the trace is the count line for n records
EndsWithCount(n) ==
    /\ Len(trace) >= 1
    /\ trace[Len(trace)].kind = "log"
    /\ trace[Len(trace)].msg = CountLog
    /\ trace[Len(trace)].arg = n

\* C9 as stated: whenever a call returns a sequence, complete or partial,
\* it has logged the count of the returned records after its last request.
C9_AlwaysLogsCount ==
    (FetchDone /\ Sized(ret)) => EndsWithCount(Len(ret.val))

\* C9 amended: a call that returns after its pagination loop ended has
\* logged, after its last request, the count of the returned records; a
\* call that returns the partial result of a later-page connection failure
\* has logged no count at all.
C9_LogsCountUnlessTruncated ==
    LET g == GetsBy(op)
    IN  (FetchDone /\ Sized(ret)) =>
            IF g[Len(g)].resp = "ok"
            THEN EndsWithCount(Len(ret.val)) /\ Len(CountLogsBy(op)) = 1
            ELSE /\ g[Len(g)].resp = "MaxRetryError"
                 /\ Len(CountLogsBy(op)) = 0
                 /\ trace[Len(trace)].kind = "GET"

\* a truncated result was returned and no count was logged
C9_Witness ==
    LET g == GetsBy(op)
    IN  /\ FetchDone /\ ret.tag = "list"
        /\ Len(g) = 2 /\ g[2].resp = "MaxRetryError"
        /\ g[1].type = "list"
        /\ Len(ret.val) = 100
        /\ Len(CountLogsBy(op)) = 0

----------------------------------------------------------------------------
(* Claims on construction and on the constructed instance, checked under Spec *)

Assigned(a) == self[a].tag # "unset"

\* the order of population the claims state
PopulationOrder ==
    <<"owner", "name", "contributors", "forks", "releases", "stars", "issues",
      "commits">>

FetchRank(f) ==
    CASE f = "contributors" -> 1
      [] f = "forks" -> 2
      [] f = "releases" -> 3
      [] f = "issues" -> 4
      [] f = "commits" -> 5
      [] OTHER -> 0

\* __init__ has returned and no method was called since
JustConstructed == pc = "done" /\ op = "__init__"

\* C5: construction populates owner, name, contributors, forks, releases,
\* stars, issues, commits in that order; every request of one fetch comes
\* before any request of the next; all five fetches are started during
\* construction; the stars step issues no request and leaves stars None.
C5_PopulationOrder ==
    /\ \A i, j \in DOMAIN PopulationOrder :
           (i < j /\ Assigned(PopulationOrder[j])) => Assigned(PopulationOrder[i])
    /\ op = "__init__" =>
           /\ \A i, j \in DOMAIN trace :
                  (i < j /\ trace[i].by \in FetchNames /\ trace[j].by \in FetchNames)
                      => FetchRank(trace[i].by) <= FetchRank(trace[j].by)
           /\ \A f \in FetchNames :
                  /\ Len(GetsBy(f)) >= 1 =>
                         \A h \in FetchNames : FetchRank(h) < FetchRank(f) => Assigned(h)
                  /\ Assigned(f) => Len(GetsBy(f)) >= 1
           /\ \A i \in DOMAIN trace : trace[i].by # "stars" /\ trace[i].by # "get_stars"
           /\ Len(GetsBy("issues")) >= 1 => self.stars.tag = "None"
    /\ Assigned("stars") => self.stars.tag = "None"
    /\ Assigned("stars") <=> Assigned("releases")
    /\ JustConstructed =>
           /\ \A a \in {PopulationOrder[i] : i \in DOMAIN PopulationOrder} : Assigned(a)
           /\ \A f \in FetchNames :
                  /\ Len(GetsBy(f)) >= 1
                  /\ \E i \in DOMAIN trace :
                         /\ trace[i].kind = "log" /\ trace[i].by = f
                         /\ trace[i].msg = FirstCallLog

\* constructed with requests of all five fetches, some of more than one page
C5_Witness ==
    /\ JustConstructed
    /\ Len(GetsBy("contributors")) >= 2
    /\ Len(GetsBy("commits")) >= 2
    /\ self.stars.tag = "None"

HasSlash(u) == \E i \in DOMAIN u : u[i] = "/"
LastSlash(u) == CHOOSE i \in DOMAIN u : u[i] = "/" /\ \A j \in DOMAIN u : u[j] = "/" => j <= i
PrevSlash(u) ==
    LET before == {i \in 1..(LastSlash(u) - 1) : u[i] = "/"}
    IN  IF before = {} THEN 0
        ELSE CHOOSE i \in before : \A j \in before : j <= i

\* C6 as stated: get_owner and get_name never raise, whatever the url.
C6_NeverRaises ==
    op \in {"__init__", "get_owner", "get_name"} => err # "IndexError"

\* C6 amended: get_name never raises for any url, and get_owner never raises
\* for a url that contains a '/': they return the text after the last '/'
\* and the text between the last two '/' (from the start when there is only
\* one), whatever the shape of the url; for a url without '/', get_owner
\* raises IndexError, which aborts construction before anything is logged.
C6_RaisesOnlyWithoutSlash ==
    self.url.tag = "str" =>
        LET u == self.url.val
        IN  /\ ~ParseGithubUrl(u, NamePosition).raised
            /\ ParseGithubUrl(u, OwnerPosition).raised <=> ~HasSlash(u)
            /\ HasSlash(u) =>
                   /\ err # "IndexError"
                   /\ self.owner = StrVal(SubSeq(u, PrevSlash(u) + 1, LastSlash(u) - 1))
                   /\ self.name = StrVal(SubSeq(u, LastSlash(u) + 1, Len(u)))
                   /\ (pc = "done" /\ op = "get_owner") => ret = self.owner
                   /\ (pc = "done" /\ op = "get_name") => ret = self.name
            /\ ~HasSlash(u) =>
                   /\ pc = "raised" /\ err = "IndexError"
                   /\ ~Assigned("owner") /\ ~Assigned("name")
                   /\ trace = <<>>

\* a url with a trailing slash is accepted: the name is the empty string
C6_Witness ==
    /\ self.url = StrVal(<<"foo", "/", "bar", "/">>)
    /\ pc = "done" /\ op = "get_name"
    /\ ret = StrVal(<<>>)
    /\ self.owner = StrVal(<<"bar">>)

\* C7: a get_total_* accessor issues no request and returns the number of
\* records of the stored collection; when the collection is None it fails
\* with an error instead of returning a number.
C7_TotalIsLengthOrError ==
    \A f \in FetchNames :
        (pc = "done" /\ op = TotalName(f)) =>
            /\ trace = <<>>
            /\ Sized(self[f]) \/ self[f].tag = "None"
            /\ Sized(self[f]) =>
                   err = "none" /\ ret = IntVal(Len(self[f].val))
            /\ self[f].tag = "None" =>
                   err = "TypeError" /\ ret.tag = "unset"

\* get_total_forks() failed on forks = None and get_total_* counted a
\* partial result elsewhere
C7_Witness ==
    /\ pc = "done" /\ op = "get_total_forks"
    /\ self.forks.tag = "None"
    /\ err = "TypeError"
    /\ self.commits.tag = "list" /\ Len(self.commits.val) = 100

\* C8: once __init__ has returned, no method call changes an attribute.
C8_ImmutableAfterConstruction ==
    [][(pc \in {"done", "method"}) => (self' = self)]_vars

\* get_forks() returned records while the forks attribute, None since
\* construction, stayed None
C8_Witness ==
    /\ pc = "done" /\ op = "forks"
    /\ ret.tag = "list" /\ Len(ret.val) > 0
    /\ self.forks.tag = "None"

\* C10: a connection failure during construction never aborts it nor skips
\* a later fetch: the attribute is None when the first request failed and
\* the partial result when a later one did, every fetch issues its first
\* request, and construction ends with every attribute assigned.
C10_FailureDoesNotAbort ==
    /\ pc = "raised" =>
           /\ err # "MaxRetryError"
           /\ err # "IndexError" =>
                  /\ Len(trace) >= 1
                  /\ trace[Len(trace)].kind = "GET"
                  /\ trace[Len(trace)].resp # "MaxRetryError"
    /\ op = "__init__" =>
           \A f \in FetchNames :
               LET g == GetsBy(f)
               IN  \A k \in DOMAIN g :
                       g[k].resp = "MaxRetryError" =>
                           /\ Len(g) = k
                           /\ self[f] = IF k = 1 THEN NoneVal
                                        ELSE [tag |-> g[1].type,
                                              val |-> ConcatPages(f, g, k - 1)]
                           /\ IF f = "commits" THEN pc = "done"
                              ELSE \E h \in FetchNames :
                                       /\ FetchRank(h) = FetchRank(f) + 1
                                       /\ \E i \in DOMAIN trace :
                                              /\ trace[i].by = h
                                              /\ trace[i].msg = FirstCallLog
                                       /\ (pc = "ctor" /\ cur = h /\ page_number = 0)
                                          \/ Len(GetsBy(h)) >= 1
    /\ JustConstructed =>
           \A f \in FetchNames : Assigned(f) /\ Len(GetsBy(f)) >= 1

\* constructed although the first request for contributors and the second
\* for forks failed: contributors is None, forks holds page 1
C10_Witness ==
    /\ JustConstructed
    /\ self.contributors.tag = "None"
    /\ self.forks.tag = "list" /\ Len(self.forks.val) = 100
    /\ GetsBy("forks")[2].resp = "MaxRetryError"
    /\ self.commits.tag = "list" /\ Len(self.commits.val) > 100

====
